---- MODULE Spec2Model ----
(***************************************************************************)
(* Model of src/javascript/Sieve/sieve.ts: class Sieve, which computes the *)
(* n-th prime (0-indexed) with a segmented Sieve of Eratosthenes.          *)
(*                                                                         *)
(* A JavaScript array is modelled as a TLA+ sequence: the array entry at   *)
(* index k is position k + 1 of the sequence.                              *)
(*                                                                         *)
(* Four specifications share the variables:                                *)
(*   Spec       NthPrime(n) from its entry to its return or throw, one     *)
(*              step per iteration of the while loop of findNthPrime;      *)
(*   SpecFind   findNthPrime(n, upperLimit) called with any upperLimit     *)
(*              (SpecFindFair adds the fairness of sequential execution);  *)
(*   SpecSieve  generatePrimesSieve(offset, limit) as a pure function;     *)
(*   SpecScan   findTargetPrimeInSegment(primes, targetCount, offset) as   *)
(*              a pure function.                                           *)
(***************************************************************************)
EXTENDS Integers, Sequences, FiniteSets

VARIABLES
    pc,            \* position: "start", "loop" (the while test, line 25), "sieve", "scan", "done"
    n,             \* argument n of NthPrime / findNthPrime
    maxArraySize,  \* value of the static Sieve.MAX_ARRAY_SIZE in this run
    upperLimit,    \* upperLimit of findNthPrime
    offset,        \* local offset of findNthPrime; argument offset of the pure calls
    primeCount,    \* local primeCount of findNthPrime
    limit,         \* local limit of findNthPrime: the length passed to generatePrimesSieve
    segOffset,     \* the offset passed to the latest generatePrimesSieve call
    target,        \* the targetCount passed to the latest findTargetPrimeInSegment call
    primes,        \* the segment (the only one alive)
    result,        \* outcome of the call
    calls          \* names of the private methods entered so far

vars == <<pc, n, maxArraySize, upperLimit, offset, primeCount, limit,
          segOffset, target, primes, result, calls>>

----------------------------------------------------------------------------
(* Bounds of the model. *)

\* largest rank n
MaxN == 12
\* ranks -MaxNeg .. -1 are the negative inputs
MaxNeg == 2
\* chunk sizes 1 .. MaxSmallChunk are tried besides 10 and the production value
MaxSmallChunk == 3
\* findNthPrime is called directly with n in 1 .. MaxFindN and upperLimit in
\* 1 .. MaxUpper (SpecFind)
MaxFindN == 6
MaxUpper == 14
\* generatePrimesSieve is applied to offsets 0 .. MaxOffset and lengths 1 .. MaxLength
MaxOffset == 20
MaxLength == 30
\* findTargetPrimeInSegment is applied to every boolean array of length <= MaxSegLen
MaxSegLen == 5
MaxTarget == 6
MaxScanOffset == 3

----------------------------------------------------------------------------
(* Program constants and values. *)

MAX_ARRAY_SIZE == 1000000

ChunkSizes == (1 .. MaxSmallChunk) \cup {10, MAX_ARRAY_SIZE}

Value(v) == [kind |-> "value", value |-> v]
Null == [kind |-> "null", value |-> 0]
InvalidArgumentError == [kind |-> "InvalidArgument", value |-> 0]
BoundExceededError == [kind |-> "BoundExceeded", value |-> 0]
Pending == [kind |-> "pending", value |-> 0]

NoSegment == << >>

Min(a, b) == IF a < b THEN a ELSE b
Max(a, b) == IF a > b THEN a ELSE b

\* Math.ceil(a / b) for integers a >= 0, b > 0
CeilDiv(a, b) == (a + b - 1) \div b

----------------------------------------------------------------------------
(* JavaScript arrays of booleans. *)

\* new Array(len).fill(true)
ArrFill(len) == [k \in 1 .. len |-> TRUE]

\* the truthiness of a[k]; a read past the end yields undefined, which is falsy
ArrGet(a, k) == IF k >= 0 /\ k < Len(a) THEN a[k + 1] ELSE FALSE

\* a[k] = v; a write past the end grows the array (holes read as falsy)
ArrSet(a, k, v) ==
    IF k < Len(a)
    THEN [a EXCEPT ![k + 1] = v]
    ELSE a \o [idx \in 1 .. (k - Len(a)) |-> FALSE] \o <<v>>

\* primes.filter((prime) => prime).length
CountTrue(a) == Cardinality({k \in 1 .. Len(a) : a[k]})

----------------------------------------------------------------------------
(* generatePrimesSieve, lines 97-120. *)

\* line 111: Math.max(i * i, Math.ceil(offset / i) * i) - offset
FirstMultiple(i, off) == Max(i * i, CeilDiv(off, i) * i) - off

\* lines 110-116: for (j = ...; j < limit; j += i) primes[j] = false
RECURSIVE MarkMultiples(_, _, _, _)
MarkMultiples(seg, j, lim, i) ==
    IF j < lim
    THEN MarkMultiples(ArrSet(seg, j, FALSE), j + i, lim, i)
    ELSE seg

\* lines 105-117: for (i = 2; i * i < upperLimit; i++)
RECURSIVE SieveLoop(_, _, _, _)
SieveLoop(seg, i, off, lim) ==
    IF i * i < off + lim
    THEN IF i >= off /\ ~ArrGet(seg, i - off)
         THEN SieveLoop(seg, i + 1, off, lim)
         ELSE SieveLoop(MarkMultiples(seg, FirstMultiple(i, off), lim, i),
                        i + 1, off, lim)
    ELSE seg

\* lines 98-103: the filled array, with entries 0 and 1 cleared when offset is 0
\* (primes[0] = primes[1] = false writes index 1 first, then index 0)
InitialSegment(off, lim) ==
    IF off = 0
    THEN ArrSet(ArrSet(ArrFill(lim), 1, FALSE), 0, FALSE)
    ELSE ArrFill(lim)

generatePrimesSieve(off, lim) == SieveLoop(InitialSegment(off, lim), 2, off, lim)

----------------------------------------------------------------------------
(* findTargetPrimeInSegment, lines 53-70. *)

\* lines 60-67: the for loop, at index i with `count` true entries seen
RECURSIVE ScanLoop(_, _, _, _, _)
ScanLoop(seg, tc, off, i, count) ==
    IF i < Len(seg)
    THEN IF ArrGet(seg, i)
         THEN IF count = tc
              THEN Value(i + off)
              ELSE ScanLoop(seg, tc, off, i + 1, count + 1)
         ELSE ScanLoop(seg, tc, off, i + 1, count)
    ELSE Null

\* a scanner that returns the segment-local index
findTargetLocalIndex(seg, tc, off) == ScanLoop(seg, tc, 0, 0, 0)

findTargetPrimeInSegment(seg, tc, off) == ScanLoop(seg, tc, off, 0, 0)

----------------------------------------------------------------------------
(* calculateUpperLimit, lines 80-85. *)

\* Math.ceil(k * (Math.log(k) + Math.log(Math.log(k)))) in IEEE double
\* arithmetic, for k = 6, 7, ..., 30 (entry k - 5 is the value for k)
UpperLimitTable ==
    << 15, 19, 23, 27, 32, 36, 41, 46, 51, 56, 61, 66, 72, 77, 82, 88, 93, 99,
       105, 110, 116, 122, 128, 133, 139 >>

calculateUpperLimit(k) == IF k < 6 THEN 11 ELSE UpperLimitTable[k - 5]

----------------------------------------------------------------------------
(* findNthPrime, lines 21-43, and NthPrime, lines 5-11. *)

\* line 25: the while test
LoopConditionInclusive(off, up) == off <= up

LoopCondition(off, up) == off < up

\* line 26: the length of this iteration's segment
SegmentLimitUnclamped(up, off, max) == up - off

SegmentLimit(up, off, max) == Min(up - off, max)

\* line 6: the guard of the invalid-argument error
InvalidRankUnchecked(k) == FALSE

InvalidRank(k) == k < 0

\* the whole loop of findNthPrime as a function of its locals
RECURSIVE findNthPrimeFrom(_, _, _, _, _)
findNthPrimeFrom(k, up, max, off, cnt) ==
    IF LoopCondition(off, up)
    THEN LET lim == SegmentLimit(up, off, max)
             seg == generatePrimesSieve(off, lim)
             r == findTargetPrimeInSegment(seg, k - cnt, off)
         IN  IF r # Null
             THEN r
             ELSE findNthPrimeFrom(k, up, max, off + lim, cnt + CountTrue(seg))
    ELSE BoundExceededError

\* the outcome of NthPrime(k) when MAX_ARRAY_SIZE is max
NthPrimeOutcome(k, max) ==
    IF InvalidRank(k) THEN InvalidArgumentError
    ELSE IF k = 0 THEN Value(2)
    ELSE findNthPrimeFrom(k, calculateUpperLimit(k + 1), max, 0, 0)

----------------------------------------------------------------------------
(* Spec: NthPrime(n), with MAX_ARRAY_SIZE set to maxArraySize. *)

Init ==
    /\ pc = "start"
    /\ n \in (0 - MaxNeg) .. MaxN
    /\ maxArraySize \in ChunkSizes
    /\ upperLimit = 0
    /\ offset = 0
    /\ primeCount = 0
    /\ limit = 0
    /\ segOffset = 0
    /\ target = 0
    /\ primes = NoSegment
    /\ result = Pending
    /\ calls = {}

\* lines 5-10 and 22-23: NthPrime up to the first test of the while loop
NthPrime ==
    /\ pc = "start"
    /\ IF InvalidRank(n)
       THEN /\ result' = InvalidArgumentError
            /\ pc' = "done"
            /\ UNCHANGED <<upperLimit, calls>>
       ELSE IF n = 0
       THEN /\ result' = Value(2)
            /\ pc' = "done"
            /\ UNCHANGED <<upperLimit, calls>>
       ELSE /\ upperLimit' = calculateUpperLimit(n + 1)
            /\ calls' = calls \cup {"calculateUpperLimit", "findNthPrime"}
            /\ pc' = "loop"
            /\ UNCHANGED result
    /\ UNCHANGED <<n, maxArraySize, offset, primeCount, limit, segOffset,
                   target, primes>>

\* lines 25-40: one iteration of the while loop
LoopIteration ==
    /\ pc = "loop"
    /\ LoopCondition(offset, upperLimit)
    /\ LET lim == SegmentLimit(upperLimit, offset, maxArraySize)
           seg == generatePrimesSieve(offset, lim)
           r == findTargetPrimeInSegment(seg, n - primeCount, offset)
       IN  /\ limit' = lim
           /\ segOffset' = offset
           /\ target' = n - primeCount
           /\ primes' = seg
           /\ calls' = calls \cup {"generatePrimesSieve", "findTargetPrimeInSegment"}
           /\ IF r # Null
              THEN /\ result' = r
                   /\ pc' = "done"
                   /\ UNCHANGED <<primeCount, offset>>
              ELSE /\ primeCount' = primeCount + CountTrue(seg)
                   /\ offset' = offset + lim
                   /\ UNCHANGED <<result, pc>>
    /\ UNCHANGED <<n, maxArraySize, upperLimit>>

\* lines 25 and 42: the loop ends and the error is thrown
LoopExit ==
    /\ pc = "loop"
    /\ ~LoopCondition(offset, upperLimit)
    /\ result' = BoundExceededError
    /\ pc' = "done"
    /\ UNCHANGED <<n, maxArraySize, upperLimit, offset, primeCount, limit,
                   segOffset, target, primes, calls>>

Next == NthPrime \/ LoopIteration \/ LoopExit

Spec == Init /\ [][Next]_vars

----------------------------------------------------------------------------
(* SpecFind: findNthPrime(n, upperLimit) for any n >= 1 and upperLimit >= 1. *)

\* lines 21-23: the entry of findNthPrime
InitFind ==
    /\ pc = "loop"
    /\ n \in 1 .. MaxFindN
    /\ maxArraySize \in ChunkSizes
    /\ upperLimit \in 1 .. MaxUpper
    /\ offset = 0
    /\ primeCount = 0
    /\ limit = 0
    /\ segOffset = 0
    /\ target = 0
    /\ primes = NoSegment
    /\ result = Pending
    /\ calls = {"findNthPrime"}

NextFind == LoopIteration \/ LoopExit

SpecFind == InitFind /\ [][NextFind]_vars

\* the code is sequential: a call that can take a step takes it
SpecFindFair == SpecFind /\ WF_vars(NextFind)

----------------------------------------------------------------------------
(* SpecSieve: generatePrimesSieve(offset, limit) on bounded inputs. *)

InitSieve ==
    /\ pc = "sieve"
    /\ offset \in 0 .. MaxOffset
    /\ limit \in 1 .. MaxLength
    /\ n = 0
    /\ maxArraySize = MAX_ARRAY_SIZE
    /\ upperLimit = 0
    /\ primeCount = 0
    /\ segOffset = 0
    /\ target = 0
    /\ primes = NoSegment
    /\ result = Pending
    /\ calls = {}

GenerateSegment ==
    /\ pc = "sieve"
    /\ primes' = generatePrimesSieve(offset, limit)
    /\ segOffset' = offset
    /\ calls' = calls \cup {"generatePrimesSieve"}
    /\ pc' = "done"
    /\ UNCHANGED <<n, maxArraySize, upperLimit, offset, primeCount, limit,
                   target, result>>

SpecSieve == InitSieve /\ [][GenerateSegment]_vars

----------------------------------------------------------------------------
(* SpecScan: findTargetPrimeInSegment(primes, targetCount, offset) on every *)
(* boolean array of bounded length.                                         *)

Segments == UNION {[1 .. len -> BOOLEAN] : len \in 0 .. MaxSegLen}

InitScan ==
    /\ pc = "scan"
    /\ primes \in Segments
    /\ target \in 0 .. MaxTarget
    /\ offset \in 0 .. MaxScanOffset
    /\ n = 0
    /\ maxArraySize = MAX_ARRAY_SIZE
    /\ upperLimit = 0
    /\ primeCount = 0
    /\ limit = 0
    /\ segOffset = 0
    /\ result = Pending
    /\ calls = {}

ScanSegment ==
    /\ pc = "scan"
    /\ result' = findTargetPrimeInSegment(primes, target, offset)
    /\ calls' = calls \cup {"findTargetPrimeInSegment"}
    /\ pc' = "done"
    /\ UNCHANGED <<n, maxArraySize, upperLimit, offset, primeCount, limit,
                   segOffset, target, primes>>

SpecScan == InitScan /\ [][ScanSegment]_vars

----------------------------------------------------------------------------
(* Reference notions the properties are stated with. *)

IsPrime(m) == m >= 2 /\ \A d \in 2 .. (m - 1) : m % d # 0

\* the number of primes in [0, m)
PrimesBelow(m) == Cardinality({q \in 0 .. (m - 1) : IsPrime(q)})

\* the k-th prime, 0-indexed: the prime with exactly k primes below it
NthPrimeRef(k) ==
    CHOOSE p \in 2 .. (5 * (k + 1)) : IsPrime(p) /\ PrimesBelow(p) = k

\* the indices of the true entries of an array
TrueIndices(a) == {i \in 0 .. (Len(a) - 1) : a[i + 1]}

----------------------------------------------------------------------------
(* Properties. *)

\* C1: with the production MAX_ARRAY_SIZE, NthPrime(n) for every n >= 0
\* returns the n-th prime (0-indexed) and does not fail.
C1_ReturnsNthPrime ==
    (pc = "done" /\ n >= 0 /\ maxArraySize = MAX_ARRAY_SIZE)
        => result = Value(NthPrimeRef(n))

\* C2: for every n >= 1 the limit calculateUpperLimit(n + 1) leaves at least
\* n + 1 primes in [0, upperLimit), and NthPrime(n) never ends in the
\* bound-exceeded error.
C2_BoundSuffices ==
    (pc # "start" /\ n >= 1 /\ maxArraySize = MAX_ARRAY_SIZE)
        => /\ "calculateUpperLimit" \in calls
           /\ PrimesBelow(upperLimit) >= n + 1
           /\ result # BoundExceededError

\* C3: the outcome of NthPrime(n) is the same for every value of
\* MAX_ARRAY_SIZE >= 1.
C3_ChunkSizeIndependent ==
    pc = "done" => \A c \in ChunkSizes : NthPrimeOutcome(n, c) = result

\* C4: for n < 0, NthPrime(n) fails with the invalid-argument error before
\* any computation: no private method is entered, no segment is generated
\* and no state of the orchestrator is created.
C4_InvalidArgumentFirst ==
    (pc # "start" /\ n < 0)
        => /\ pc = "done"
           /\ result = InvalidArgumentError
           /\ calls = {}
           /\ primes = NoSegment
           /\ upperLimit = 0 /\ offset = 0 /\ primeCount = 0 /\ limit = 0

C4_Witness == pc = "done" /\ n < 0 /\ result = InvalidArgumentError

\* C5: generatePrimesSieve(offset, limit) returns exactly `limit` booleans,
\* the one at index i being true if and only if offset + i is prime.
C5_SegmentMarksPrimes ==
    (pc = "done" /\ "generatePrimesSieve" \in calls)
        => /\ Len(primes) = limit
           /\ \A i \in 0 .. (limit - 1) : ArrGet(primes, i) <=> IsPrime(offset + i)

\* C6: in every segment generatePrimesSieve returns, the entry at every
\* index i with offset + i < 2 is false.
C6_ZeroAndOneNotPrime ==
    (pc = "done" /\ "generatePrimesSieve" \in calls)
        => \A i \in 0 .. (Len(primes) - 1) : (segOffset + i < 2) => ~primes[i + 1]

\* C7: in every iteration of the findNthPrime loop, the length passed to
\* generatePrimesSieve is at least 1 and at most MAX_ARRAY_SIZE, and the
\* segment ends at or before upperLimit.
C7_SegmentLengthBounded ==
    ("generatePrimesSieve" \in calls)
        => /\ 1 <= limit
           /\ limit <= maxArraySize
           /\ segOffset + limit <= upperLimit

\* a later iteration whose length is cut by upperLimit, not by the chunk size
C7_Witness ==
    /\ "generatePrimesSieve" \in calls
    /\ segOffset > 0
    /\ limit = upperLimit - segOffset
    /\ limit < maxArraySize

\* C8: findNthPrime(n, upperLimit) terminates; offset strictly increases in
\* every iteration that does not return; the call ends either with a value
\* the scanner found, which lies in [0, upperLimit), or with the
\* bound-exceeded error, and then offset equals upperLimit and the last
\* segment scanned ended at upperLimit.
C8_SinglePassTerminates ==
    /\ [][(pc = "loop" /\ pc' = "loop") => offset' > offset]_vars
    /\ [](pc = "done" =>
            \/ /\ result.kind = "value"
               /\ result.value >= 0
               /\ result.value < upperLimit
               /\ ArrGet(primes, result.value - segOffset)
               /\ Cardinality({i \in TrueIndices(primes) : i < result.value - segOffset})
                      = target
            \/ /\ result = BoundExceededError
               /\ offset = upperLimit
               /\ segOffset + limit = upperLimit)
    /\ <>(pc = "done")

\* the error after more than one segment
C8_Witness ==
    /\ pc = "done"
    /\ result = BoundExceededError
    /\ offset = upperLimit
    /\ segOffset > 0

\* C9: findTargetPrimeInSegment returns offset + i for the index i of the
\* (targetCount + 1)-th true entry when the segment has more than
\* targetCount true entries, returns null exactly when it has at most
\* targetCount true entries, and leaves the segment as it was.
C9_ScannerFindsTarget ==
    /\ [][primes' = primes]_vars
    /\ [](pc = "done" =>
            IF Cardinality(TrueIndices(primes)) > target
            THEN \E i \in TrueIndices(primes) :
                    /\ Cardinality({j \in TrueIndices(primes) : j < i}) = target
                    /\ result = Value(offset + i)
            ELSE result = Null)

\* a found target that is not the first true entry, behind a false entry,
\* in a segment that does not start at 0
C9_Witness ==
    /\ pc = "done"
    /\ result.kind = "value"
    /\ target > 0
    /\ offset > 0
    /\ result.value - offset > target

\* C10: at the start of every iteration of the findNthPrime loop, primeCount
\* is the number of primes in [0, offset) and is at most n, for every n >= 1
\* and every chunk size >= 1.
C10_PrimeCountAccumulates ==
    (pc = "loop" /\ n >= 1)
        => /\ primeCount = PrimesBelow(offset)
           /\ primeCount <= n
           /\ n - primeCount >= 0

====
